---------------------------- MODULE Spec2Model ----------------------------
(***************************************************************************)
(* A model of prometheus_switchbot_exporter.py: the classifier             *)
(* is_switchbot_thermometer, the decoder parse_device_data, the publisher  *)
(* publish_measurement, the discovery callback                             *)
(* SwitchbotDelegate.handleDiscovery and the scan loop of main.            *)
(*                                                                         *)
(* Python strings are sequences of one-character strings.  A temperature   *)
(* is kept in tenths of a degree (an integer): the code computes           *)
(* integral + nibble / 10.0, whose value is (10 * integral + nibble) / 10. *)
(***************************************************************************)
EXTENDS Integers, Sequences, FiniteSets, TLC

VARIABLES
    pc,                 \* where the program is: "scan" / "exited" (main), "call" / "return" (one function call)
    event,              \* what the last step was
    uncaught,           \* the exception that left main, "none" while it runs
    disconnects,        \* how many BTLEDisconnectError were caught so far
    device,             \* the ScanEntry handed to the last call
    flags,              \* <<is_new_device, is_new_data>> of the last handleDiscovery
    ret,                \* outcome of the last call of the classifier or the decoder
    publishes,          \* how many measurements were published so far
    gauge_rssi,         \* the four gauges: label -> value
    gauge_battery,
    gauge_humidity,
    gauge_temperature,
    accepted            \* history: addr -> the last ScanEntry that was classified and decoded

vars == <<pc, event, uncaught, disconnects, device, flags, ret, publishes,
          gauge_rssi, gauge_battery, gauge_humidity, gauge_temperature, accepted>>

Sink == <<gauge_rssi, gauge_battery, gauge_humidity, gauge_temperature>>

-----------------------------------------------------------------------------
(* Bounds *)

MaxLen == 18            \* longest service-data string tried
MaxDisconnects == 2     \* the disconnect counter stops counting here
MaxPublishes == 2       \* the publish counter stops counting here

-----------------------------------------------------------------------------
(* Strings *)

Min(a, b) == IF a < b THEN a ELSE b

\* Python's None, as a value comparable with strings
None == <<"<None>">>

\* s.startswith(p)
StartsWith(s, p) == Len(s) >= Len(p) /\ SubSeq(s, 1, Len(p)) = p

\* s[a:b] for 0 <= a <= b
Slice(s, a, b) == SubSeq(s, a + 1, Min(b, Len(s)))

HexDigits == <<"0", "1", "2", "3", "4", "5", "6", "7", "8", "9",
               "a", "b", "c", "d", "e", "f">>
UpperHexDigits == <<"0", "1", "2", "3", "4", "5", "6", "7", "8", "9",
                    "A", "B", "C", "D", "E", "F">>

\* the value of a digit of base 16, in either case
HexValue ==
    ("0" :> 0) @@ ("1" :> 1) @@ ("2" :> 2) @@ ("3" :> 3) @@ ("4" :> 4) @@ ("5" :> 5) @@
    ("6" :> 6) @@ ("7" :> 7) @@ ("8" :> 8) @@ ("9" :> 9) @@
    ("a" :> 10) @@ ("b" :> 11) @@ ("c" :> 12) @@ ("d" :> 13) @@ ("e" :> 14) @@ ("f" :> 15) @@
    ("A" :> 10) @@ ("B" :> 11) @@ ("C" :> 12) @@ ("D" :> 13) @@ ("E" :> 14) @@ ("F" :> 15)

IsHexChar(c) == c \in DOMAIN HexValue

HexVal(c) == HexValue[c]

\* int(s, 16) accepts s when it is a non-empty run of hex digits (the model
\* has no sign, blank or underscore characters)
IntAccepts(s) == Len(s) > 0 /\ \A i \in 1..Len(s) : IsHexChar(s[i])

RECURSIVE IntHex(_)
IntHex(s) == IF Len(s) = 0 THEN 0
             ELSE 16 * IntHex(SubSeq(s, 1, Len(s) - 1)) + HexVal(s[Len(s)])

-----------------------------------------------------------------------------
(* Module constants *)

SWITCHBOT_MANUFACTURER_ID == <<"5", "9", "0", "0">>

SWITCHBOT_SERVICE_ID ==
    <<"c", "b", "a", "2", "0", "d", "0", "0", "-", "2", "2", "4", "d", "-",
      "1", "1", "e", "6", "-", "9", "f", "b", "8", "-",
      "0", "0", "0", "2", "a", "5", "d", "5", "c", "5", "1", "b">>

DEVICE_NAME_MAP ==
    [a \in {"f2:0c:69:f4:56:af", "ee:ed:06:15:e1:fc", "f2:8d:34:be:e8:e6",
            "e3:06:1c:69:f5:67", "ce:e7:0b:2e:1a:fe"} |->
        CASE a = "f2:0c:69:f4:56:af" -> "Haustür"
          [] a = "ee:ed:06:15:e1:fc" -> "Terasse"
          [] a = "f2:8d:34:be:e8:e6" -> "Wohnzimmer"
          [] a = "e3:06:1c:69:f5:67" -> "Büro"
          [] a = "ce:e7:0b:2e:1a:fe" -> "Bad"]

\* dict.get(key, default)
Get(d, key, default) == IF key \in DOMAIN d THEN d[key] ELSE default

-----------------------------------------------------------------------------
(* The functions of the exporter *)

\* A ScanEntry is [addr, rssi, scanData]; scanData is the sequence of
\* <<adtype, description, value>> that getScanData() yields, one per adtype.

\* {description: value for _, description, value in device.getScanData()}
get_scan_data(dev) ==
    LET sd == dev.scanData
        descs == {sd[i][2] : i \in 1..Len(sd)}
        last(d) == CHOOSE i \in 1..Len(sd) :
                      /\ sd[i][2] = d
                      /\ \A j \in (i + 1)..Len(sd) : sd[j][2] # d
    IN  [d \in descs |-> sd[last(d)][3]]

is_switchbot_thermometer_no_uuid(dev) ==
    IF Len(dev.scanData) = 0 THEN FALSE
    ELSE LET scan_data == get_scan_data(dev)
         IN  StartsWith(Get(scan_data, "Manufacturer", <<>>), SWITCHBOT_MANUFACTURER_ID)

is_switchbot_thermometer(dev) ==
    IF Len(dev.scanData) = 0 THEN FALSE
    ELSE LET scan_data == get_scan_data(dev)
         IN  IF ~StartsWith(Get(scan_data, "Manufacturer", <<>>), SWITCHBOT_MANUFACTURER_ID)
             THEN FALSE
             ELSE IF Get(scan_data, "Complete 128b Services", None) # SWITCHBOT_SERVICE_ID
             THEN FALSE
             ELSE TRUE

\* Measurement(battery, temperature, humidity); temperature in tenths
Measurement(battery, temperature, humidity) ==
    [battery |-> battery, temperature |-> temperature, humidity |-> humidity]

Raise(exc) == [exc |-> exc]
Return(value) == [exc |-> "none", value |-> value]

\* byte2 & 127
battery_unmasked(byte2) == byte2

battery_clamped(byte2) == Min(byte2 % 128, 100)

battery_of(byte2) == byte2 % 128

\* the sign rule: integral and fractional (a nibble, /10.0 in the code) to tenths
temperature_high_bit_negative(integral, fractional) ==
    IF integral >= 128
    THEN (-1) * (10 * (integral - 128) + fractional)
    ELSE 10 * integral + fractional

temperature_of(integral, fractional) ==
    IF integral < 128
    THEN 10 * ((-1) * integral) + (-1) * fractional
    ELSE 10 * (integral - 128) + fractional

\* int(...) % 128
humidity_of(byte) == byte % 128

\* the body of parse_device_data after the frame-marker check
decode_fields(service_data) ==
    LET s2 == Slice(service_data, 8, 10)
        sf == Slice(service_data, 11, 12)
        si == Slice(service_data, 12, 14)
        sh == Slice(service_data, 14, 16)
    IN  IF ~(IntAccepts(s2) /\ IntAccepts(sf) /\ IntAccepts(si) /\ IntAccepts(sh))
        THEN Raise("ValueError")
        ELSE Return(Measurement(battery_of(IntHex(s2)),
                                temperature_of(IntHex(si), IntHex(sf)),
                                humidity_of(IntHex(sh))))

parse_device_data_no_marker_check(dev) ==
    LET service_data == Get(get_scan_data(dev), "16b Service Data", None)
    IN  IF service_data = None THEN Raise("AttributeError")
        ELSE decode_fields(service_data)

parse_device_data(dev) ==
    LET service_data == Get(get_scan_data(dev), "16b Service Data", None)
    IN  IF service_data = None THEN Raise("AttributeError")
        ELSE IF ~StartsWith(service_data, <<"0", "0", "0", "d">>) THEN Raise("ValueError")
        ELSE decode_fields(service_data)

\* the label a gauge child is stored under
Label(dev) == <<dev.addr, Get(DEVICE_NAME_MAP, dev.addr, dev.addr)>>

\* Gauge.labels(...).set(value)
GaugeAdd(gauge, label, value) ==
    [l \in DOMAIN gauge \cup {label} |->
        IF l = label THEN (IF l \in DOMAIN gauge THEN gauge[l] ELSE 0) + value
        ELSE gauge[l]]

GaugeSet(gauge, label, value) ==
    [l \in DOMAIN gauge \cup {label} |-> IF l = label THEN value ELSE gauge[l]]

publish_measurement_without_temperature(dev, measurement) ==
    /\ gauge_rssi' = GaugeSet(gauge_rssi, Label(dev), dev.rssi)
    /\ gauge_battery' = GaugeSet(gauge_battery, Label(dev), measurement.battery)
    /\ gauge_humidity' = GaugeSet(gauge_humidity, Label(dev), measurement.humidity)
    /\ gauge_temperature' = gauge_temperature

publish_measurement(dev, measurement) ==
    /\ gauge_rssi' = GaugeSet(gauge_rssi, Label(dev), dev.rssi)
    /\ gauge_battery' = GaugeSet(gauge_battery, Label(dev), measurement.battery)
    /\ gauge_humidity' = GaugeSet(gauge_humidity, Label(dev), measurement.humidity)
    /\ gauge_temperature' = GaugeSet(gauge_temperature, Label(dev), measurement.temperature)

\* except btle.BTLEDisconnectError
CatchesNothing(exc) == FALSE

CatchesEveryBTLEException(exc) == TRUE

Catches(exc) == exc = "BTLEDisconnectError"

-----------------------------------------------------------------------------
(* Inputs *)

HexByte(b) == <<HexDigits[(b \div 16) + 1], HexDigits[(b % 16) + 1]>>

Upper(s) == [i \in 1..Len(s) |->
                IF \E k \in 1..16 : HexDigits[k] = s[i]
                THEN UpperHexDigits[CHOOSE k \in 1..16 : HexDigits[k] = s[i]]
                ELSE s[i]]

Zeros(n) == [i \in 1..n |-> "0"]

Marker == <<"0", "0", "0", "d">>

\* a 16-character service-data string with the given fields
ServiceData(prefix, byte2, nibble, integral, humidity) ==
    prefix \o <<"5", "4", "1", "0">> \o HexByte(byte2) \o <<"0">>
           \o <<HexDigits[nibble + 1]>> \o HexByte(integral) \o HexByte(humidity)

ByteSamples == {0, 1, 50, 80, 100, 101, 127, 128, 129, 200, 255}
FewBytes == {80, 129, 255}

WellFormed == {ServiceData(Marker, b, f, i, h) :
                  b \in ByteSamples, f \in 0..15, i \in ByteSamples, h \in ByteSamples}

BadMarkers == {<<"0", "0", "0", "D">>, <<"0", "0", "0", "c">>, <<"0", "d", "0", "0">>,
               <<"d", "0", "0", "0">>, <<"1", "0", "0", "d">>, <<"0", "0", "d", "0">>}

WrongMarker == {ServiceData(p, b, f, i, h) :
                   p \in BadMarkers, b \in FewBytes, f \in {3, 15}, i \in FewBytes, h \in FewBytes}

FewWellFormed == {ServiceData(Marker, b, f, i, h) :
                     b \in FewBytes, f \in {3, 15}, i \in FewBytes, h \in FewBytes}

\* every length from 0 to MaxLen, with a good and with a bad marker
Truncated == {SubSeq(s \o Zeros(MaxLen), 1, n) :
                 s \in FewWellFormed \cup {ServiceData(<<"0", "0", "0", "c">>, 100, 3, 129, 50)},
                 n \in 0..MaxLen}

\* upper-case digits and a character that is no hex digit in a decoded field
OddCharacters ==
    {[s EXCEPT ![k] = c] : s \in FewWellFormed, k \in {9, 10, 11, 12, 13, 14, 15, 16}, c \in {"g", "F"}}

ServiceDataInputs == WellFormed \cup WrongMarker \cup Truncated \cup OddCharacters

ManufacturerInputs ==
    {None, <<>>, <<"5", "9">>, <<"5", "9", "0">>, SWITCHBOT_MANUFACTURER_ID,
     SWITCHBOT_MANUFACTURER_ID \o <<"e", "3", "0", "6", "1", "c">>,
     <<"0", "0", "5", "9">>, <<"5", "9", "0", "1">>, <<"0", "5", "9", "0", "0">>,
     <<"4", "c", "0", "0", "5", "9", "0", "0">>}

ServiceInputs ==
    {None, <<>>, SWITCHBOT_SERVICE_ID, Upper(SWITCHBOT_SERVICE_ID),
     SubSeq(SWITCHBOT_SERVICE_ID, 1, Len(SWITCHBOT_SERVICE_ID) - 1),
     SWITCHBOT_SERVICE_ID \o <<"0">>,
     [SWITCHBOT_SERVICE_ID EXCEPT ![36] = "c"],
     <<"0", "0", "0", "0", "f", "d", "3", "d">>}

\* the scan data of an advertisement; None leaves the field out
ScanData(with_flags, manufacturer, services, service_data) ==
       (IF with_flags THEN << <<1, "Flags", <<"0", "6">> >> >> ELSE <<>>)
    \o (IF manufacturer = None THEN <<>> ELSE << <<255, "Manufacturer", manufacturer>> >>)
    \o (IF services = None THEN <<>> ELSE << <<7, "Complete 128b Services", services>> >>)
    \o (IF service_data = None THEN <<>> ELSE << <<22, "16b Service Data", service_data>> >>)

ScanEntry(addr, rssi, scanData) == [addr |-> addr, rssi |-> rssi, scanData |-> scanData]

Addresses == {"f2:0c:69:f4:56:af", "c4:7c:8d:6a:01:02"}
Rssis == {-71, -48}

\* inputs of one call of the classifier or of the decoder
ClassifierInputs ==
    {ScanEntry("f2:0c:69:f4:56:af", -71, ScanData(fl, m, u, sd)) :
        fl \in BOOLEAN, m \in ManufacturerInputs, u \in ServiceInputs,
        sd \in {None, ServiceData(Marker, 100, 3, 129, 50)}}

DecoderInputs ==
    {ScanEntry("f2:0c:69:f4:56:af", -71,
               ScanData(TRUE, SWITCHBOT_MANUFACTURER_ID, SWITCHBOT_SERVICE_ID, sd)) :
        sd \in ServiceDataInputs}

CallInputs == ClassifierInputs \cup DecoderInputs

\* the advertisements the scan source delivers
Payloads == {ServiceData(Marker, 100, 3, 129, 50),
             ServiceData(Marker, 255, 12, 80, 255),
             ServiceData(<<"0", "0", "0", "c">>, 100, 3, 129, 50),
             SubSeq(ServiceData(Marker, 100, 3, 129, 50), 1, 12),
             None}

GoodPayloads == {p \in Payloads : p # None /\ Len(p) = 16 /\ StartsWith(p, Marker)}

\* thermometers with a decodable payload, at both addresses and signal strengths
Thermometers ==
    {ScanEntry(a, r, ScanData(TRUE, SWITCHBOT_MANUFACTURER_ID, SWITCHBOT_SERVICE_ID, p)) :
        a \in Addresses, r \in Rssis, p \in GoodPayloads}

\* other devices, and thermometers whose payload does not decode
Others ==
    {ScanEntry("f2:0c:69:f4:56:af", -60, sd) :
        sd \in {<<>>,
                ScanData(TRUE, <<"4", "c", "0", "0">>, None, None),
                ScanData(TRUE, SWITCHBOT_MANUFACTURER_ID, Upper(SWITCHBOT_SERVICE_ID),
                         ServiceData(Marker, 100, 3, 129, 50))}
            \cup {ScanData(TRUE, SWITCHBOT_MANUFACTURER_ID, SWITCHBOT_SERVICE_ID, p) :
                     p \in Payloads \ GoodPayloads}}

Advertisements == Thermometers \cup Others

BTLEExceptions == {"BTLEDisconnectError", "BTLEManagementError", "BTLEInternalError"}

-----------------------------------------------------------------------------
(* The scan loop *)

NoCall == [fn |-> "none"]
Empty == [l \in {} |-> 0]

Init ==
    /\ pc = "scan"
    /\ event = "start"
    /\ uncaught = "none"
    /\ disconnects = 0
    /\ device = ScanEntry("", 0, <<>>)
    /\ flags = <<FALSE, FALSE>>
    /\ ret = NoCall
    /\ publishes = 0
    /\ gauge_rssi = Empty
    /\ gauge_battery = Empty
    /\ gauge_humidity = Empty
    /\ gauge_temperature = Empty
    /\ accepted = Empty

\* SwitchbotDelegate.handleDiscovery, called by scanner.scan for an
\* advertisement; an exception of the callback leaves scan and main
handleDiscovery(dev, is_new_device, is_new_data) ==
    /\ pc = "scan"
    /\ event' = "handleDiscovery"
    /\ device' = dev
    /\ flags' = <<is_new_device, is_new_data>>
    /\ UNCHANGED <<disconnects, ret>>
    /\ IF is_switchbot_thermometer(dev)
       THEN LET measurement == parse_device_data(dev)
            IN  IF measurement.exc = "none"
                THEN /\ publish_measurement(dev, measurement.value)
                     /\ accepted' = [a \in DOMAIN accepted \cup {dev.addr} |->
                                        IF a = dev.addr THEN dev ELSE accepted[a]]
                     /\ publishes' = Min(publishes + 1, MaxPublishes)
                     /\ UNCHANGED <<pc, uncaught>>
                ELSE /\ pc' = "exited"
                     /\ uncaught' = measurement.exc
                     /\ UNCHANGED <<gauge_rssi, gauge_battery, gauge_humidity,
                                    gauge_temperature, accepted, publishes>>
       ELSE UNCHANGED <<pc, uncaught, gauge_rssi, gauge_battery, gauge_humidity,
                        gauge_temperature, accepted, publishes>>

\* scanner.scan(60) returns at the end of its window; while True calls it again
ScanReturns ==
    /\ pc = "scan"
    /\ event' = "scan_returns"
    /\ UNCHANGED <<pc, uncaught, disconnects, device, flags, ret, publishes, gauge_rssi,
                   gauge_battery, gauge_humidity, gauge_temperature, accepted>>

\* scanner.scan(60) raises a transport error
ScanRaises(exc) ==
    /\ pc = "scan"
    /\ event' = exc
    /\ IF Catches(exc)
       THEN /\ disconnects' = Min(disconnects + 1, MaxDisconnects)
            /\ UNCHANGED <<pc, uncaught>>
       ELSE /\ pc' = "exited"
            /\ uncaught' = exc
            /\ UNCHANGED disconnects
    /\ UNCHANGED <<device, flags, ret, publishes, gauge_rssi, gauge_battery,
                   gauge_humidity, gauge_temperature, accepted>>

Next ==
    \/ \E dev \in Advertisements, is_new_device \in BOOLEAN, is_new_data \in BOOLEAN :
          handleDiscovery(dev, is_new_device, is_new_data)
    \/ ScanReturns
    \/ \E exc \in BTLEExceptions : ScanRaises(exc)

Spec == Init /\ [][Next]_vars

-----------------------------------------------------------------------------
(* One call of the classifier or of the decoder on an arbitrary input *)

CallInit ==
    /\ pc = "call"
    /\ event = "start"
    /\ uncaught = "none"
    /\ disconnects = 0
    /\ device \in CallInputs
    /\ flags = <<FALSE, FALSE>>
    /\ ret = NoCall
    /\ publishes = 0
    /\ gauge_rssi = Empty
    /\ gauge_battery = Empty
    /\ gauge_humidity = Empty
    /\ gauge_temperature = Empty
    /\ accepted = Empty

CallClassifier ==
    /\ pc = "call"
    /\ pc' = "return"
    /\ event' = "is_switchbot_thermometer"
    /\ ret' = [fn |-> "is_switchbot_thermometer", exc |-> "none",
               value |-> is_switchbot_thermometer(device)]
    /\ UNCHANGED <<uncaught, disconnects, device, flags, publishes, gauge_rssi,
                   gauge_battery, gauge_humidity, gauge_temperature, accepted>>

CallDecoder ==
    /\ pc = "call"
    /\ pc' = "return"
    /\ event' = "parse_device_data"
    /\ ret' = [fn |-> "parse_device_data", result |-> parse_device_data(device)]
    /\ UNCHANGED <<uncaught, disconnects, device, flags, publishes, gauge_rssi,
                   gauge_battery, gauge_humidity, gauge_temperature, accepted>>

CallNext == CallClassifier \/ CallDecoder

CallSpec == CallInit /\ [][CallNext]_vars

-----------------------------------------------------------------------------
(* Reading an advertisement and a hex string directly, for the properties *)

HasField(dev, description) ==
    \E i \in 1..Len(dev.scanData) : dev.scanData[i][2] = description

FieldOf(dev, description) ==
    dev.scanData[CHOOSE i \in 1..Len(dev.scanData) : dev.scanData[i][2] = description][3]

\* the position of a character among the sixteen digits, -1 when it is none
DigitOf(c) ==
    IF \E k \in 1..16 : HexDigits[k] = c \/ UpperHexDigits[k] = c
    THEN (CHOOSE k \in 1..16 : HexDigits[k] = c \/ UpperHexDigits[k] = c) - 1
    ELSE -1

\* the number a run of one or two hex digits encodes, -1 when it encodes none
NumberOf(s) ==
    IF Len(s) = 1 THEN DigitOf(s[1])
    ELSE IF Len(s) = 2 /\ DigitOf(s[1]) >= 0 /\ DigitOf(s[2]) >= 0
    THEN 16 * DigitOf(s[1]) + DigitOf(s[2])
    ELSE -1

\* the decoder was called on a present service-data string
Decoded == pc = "return" /\ ret.fn = "parse_device_data" /\ HasField(device, "16b Service Data")

\* ... that starts with the frame marker and is 16 hex characters long
DecodedFrame ==
    /\ Decoded
    /\ LET s == FieldOf(device, "16b Service Data")
       IN  /\ Len(s) = 16
           /\ SubSeq(s, 1, 4) = <<"0", "0", "0", "d">>
           /\ \A i \in 1..16 : NumberOf(<<s[i]>>) >= 0

Classified(dev) ==
    /\ HasField(dev, "Manufacturer")
    /\ LET m == FieldOf(dev, "Manufacturer")
       IN  Len(m) >= 4 /\ m[1] = "5" /\ m[2] = "9" /\ m[3] = "0" /\ m[4] = "0"
    /\ HasField(dev, "Complete 128b Services")
    /\ FieldOf(dev, "Complete 128b Services") = SWITCHBOT_SERVICE_ID

-----------------------------------------------------------------------------
(* Properties of the decoder and the classifier, under CallSpec *)

\* C1: a 16-character frame decodes to a temperature that follows the inverted
\* sign rule: with I the byte at [12:14] and F the nibble at [11:12], the
\* tenths of a degree are -(10*I + F) when I < 128 and 10*(I - 128) + F otherwise.
C1_InvertedSignRule ==
    DecodedFrame =>
        LET s == FieldOf(device, "16b Service Data")
            I == NumberOf(SubSeq(s, 13, 14))
            F == NumberOf(SubSeq(s, 12, 12))
        IN  /\ ret.result.exc = "none"
            /\ ret.result.value.temperature =
                  IF I < 128 THEN 0 - (10 * I + F) ELSE 10 * (I - 128) + F
            /\ (I = 129 /\ F = 3) => ret.result.value.temperature = 13
            /\ I = 80 => ret.result.value.temperature \in (0 - 815)..(0 - 800)

C1_Witness ==
    /\ DecodedFrame
    /\ SubSeq(FieldOf(device, "16b Service Data"), 12, 14) = <<"3", "8", "1">>
    /\ ret.result.value.temperature = 13

\* C2: the classifier returns true exactly when the advertisement has scan
\* data, a Manufacturer field starting with "5900" and a service-UUID field
\* equal to the thermometer's service id, and it never raises.
C2_ClassifierIff ==
    (pc = "return" /\ ret.fn = "is_switchbot_thermometer") =>
        /\ ret.exc = "none"
        /\ ret.value = (Len(device.scanData) > 0 /\ Classified(device))

C2_Witness ==
    /\ pc = "return"
    /\ ret.fn = "is_switchbot_thermometer"
    /\ ret.value = TRUE
    /\ Len(FieldOf(device, "Manufacturer")) > 4

\* C4: a service-data string that does not start with "000d" (the empty
\* string included) makes the decoder raise ValueError and build no Measurement.
C4_MalformedPayload ==
    (Decoded /\ LET s == FieldOf(device, "16b Service Data")
                IN  Len(s) < 4 \/ SubSeq(s, 1, 4) # <<"0", "0", "0", "d">>) =>
        /\ ret.result.exc = "ValueError"
        /\ "value" \notin DOMAIN ret.result

C4_Witness ==
    /\ Decoded
    /\ FieldOf(device, "16b Service Data") = <<>>
    /\ ret.result.exc = "ValueError"

\* C7 as stated: every Measurement the decoder returns for a string starting
\* with "000d" has battery and humidity in [0,100].
C7_PercentRange ==
    (Decoded /\ ret.result.exc = "none") =>
        /\ ret.result.value.battery \in 0..100
        /\ ret.result.value.humidity \in 0..100

\* C7, amended: every Measurement the decoder returns for a string starting
\* with "000d" has battery and humidity in [0,127].
C7_SevenBitRange ==
    (Decoded /\ ret.result.exc = "none") =>
        /\ SubSeq(FieldOf(device, "16b Service Data"), 1, 4) = <<"0", "0", "0", "d">>
        /\ ret.result.value.battery \in 0..127
        /\ ret.result.value.humidity \in 0..127

C7_Witness ==
    /\ Decoded
    /\ ret.result.exc = "none"
    /\ ret.result.value.battery = 127
    /\ ret.result.value.humidity = 127

\* C8: a 16-character frame decodes to battery = the low 7 bits of the byte at
\* [8:10] and humidity = the byte at [14:16] modulo 128, uncorrected: 0xFF gives
\* 127 for either, battery byte 0x64 gives 100, humidity byte 0x32 gives 50.
C8_BatteryAndHumidity ==
    DecodedFrame =>
        LET s == FieldOf(device, "16b Service Data")
            B == NumberOf(SubSeq(s, 9, 10))
            H == NumberOf(SubSeq(s, 15, 16))
            m == ret.result.value
        IN  /\ ret.result.exc = "none"
            /\ m.battery = B - 128 * (B \div 128)
            /\ m.humidity = H % 128
            /\ B = 255 => m.battery = 127
            /\ B = 100 => m.battery = 100
            /\ H = 255 => m.humidity = 127
            /\ H = 50 => m.humidity = 50

C8_Witness ==
    /\ DecodedFrame
    /\ SubSeq(FieldOf(device, "16b Service Data"), 9, 10) = <<"f", "f">>
    /\ SubSeq(FieldOf(device, "16b Service Data"), 15, 16) = <<"3", "2">>
    /\ ret.result.value.battery = 127
    /\ ret.result.value.humidity = 50

-----------------------------------------------------------------------------
(* Properties of the scan loop, under Spec *)

\* the last step was a discovery of a thermometer whose service data is a
\* string without the frame marker
MalformedDiscovered ==
    /\ event = "handleDiscovery"
    /\ Len(device.scanData) > 0
    /\ Classified(device)
    /\ HasField(device, "16b Service Data")
    /\ SubSeq(FieldOf(device, "16b Service Data"), 1, 4) # <<"0", "0", "0", "d">>

\* C3: after a classified advertisement whose decode fails (service data not
\* starting with "000d") the scan loop does not terminate: it goes on scanning.
C3_LoopSurvivesMalformedPayload == MalformedDiscovered => pc = "scan"

\* C5: a BTLEDisconnectError raised in a scan window never ends the process:
\* it is caught, the loop is in a scan window again right after it, however many
\* disconnects came before, and it changes nothing that was published.
C5_DisconnectIsCaught ==
    [][event' = "BTLEDisconnectError" =>
          /\ pc' = "scan"
          /\ uncaught' = "none"
          /\ UNCHANGED <<gauge_rssi, gauge_battery, gauge_humidity, gauge_temperature,
                         accepted>>]_vars

\* a measurement was published after two disconnects
C5_Witness ==
    /\ disconnects >= 2
    /\ pc = "scan"
    /\ event = "handleDiscovery"
    /\ device.addr \in DOMAIN accepted
    /\ accepted[device.addr] = device
    /\ gauge_rssi[Label(device)] = device.rssi

\* the label of an address of Addresses: its friendly name, or the address
LabelOf(addr) ==
    IF addr = "f2:0c:69:f4:56:af" THEN <<addr, "Haustür">> ELSE <<addr, addr>>

\* C6: publishing overwrites and never accumulates: the four gauges under a
\* device's label hold exactly the values of the most recent advertisement of
\* that device that was classified and decoded, and there are no other labels;
\* delivering the same advertisement again leaves the sink as it is.
C6_GaugesHoldLatest ==
    /\ [](/\ \A g \in {gauge_rssi, gauge_battery, gauge_humidity, gauge_temperature} :
                DOMAIN g = {LabelOf(a) : a \in DOMAIN accepted}
          /\ \A a \in DOMAIN accepted :
                LET m == parse_device_data(accepted[a]).value
                IN  /\ gauge_rssi[LabelOf(a)] = accepted[a].rssi
                    /\ gauge_battery[LabelOf(a)] = m.battery
                    /\ gauge_humidity[LabelOf(a)] = m.humidity
                    /\ gauge_temperature[LabelOf(a)] = m.temperature)
    /\ [][(event = "handleDiscovery" /\ event' = "handleDiscovery" /\ device' = device) =>
             UNCHANGED <<gauge_rssi, gauge_battery, gauge_humidity, gauge_temperature>>]_vars

\* one device alone has published, at least twice, and the other afterwards
\* sent an advertisement that is no thermometer's
C6_Witness ==
    /\ publishes >= 2
    /\ DOMAIN accepted = {"c4:7c:8d:6a:01:02"}
    /\ gauge_battery[<<"c4:7c:8d:6a:01:02", "c4:7c:8d:6a:01:02">>] = 127
    /\ gauge_temperature[<<"c4:7c:8d:6a:01:02", "c4:7c:8d:6a:01:02">>] = 0 - 812
    /\ event = "handleDiscovery"
    /\ device.addr = "f2:0c:69:f4:56:af"

OtherTransportErrors == BTLEExceptions \ {"BTLEDisconnectError"}

\* C9: a transport error other than a disconnect is not caught: it leaves main,
\* the process is over and nothing happens afterwards.
C9_OtherErrorsAreFatal ==
    [][/\ event' \in OtherTransportErrors => (pc' = "exited" /\ uncaught' = event')
       /\ pc = "exited" => UNCHANGED vars]_vars

C9_Witness ==
    /\ pc = "exited"
    /\ event = "BTLEManagementError"
    /\ uncaught = "BTLEManagementError"
    /\ disconnects >= 1
    /\ publishes >= 1

\* C10: handleDiscovery changes the sink only for a decoded thermometer: any
\* other advertisement leaves every gauge unchanged; a decoded one sets the four
\* gauges of its label and leaves every other label as it was, whatever the
\* flags; so the four gauges always have the same labels.
C10_SinkFrame ==
    /\ [][event' = "handleDiscovery" =>
             IF is_switchbot_thermometer(device') /\ parse_device_data(device').exc = "none"
             THEN \A g \in {<<gauge_rssi, gauge_rssi'>>, <<gauge_battery, gauge_battery'>>,
                            <<gauge_humidity, gauge_humidity'>>,
                            <<gauge_temperature, gauge_temperature'>>} :
                     /\ DOMAIN g[2] = DOMAIN g[1] \cup {LabelOf(device'.addr)}
                     /\ \A l \in DOMAIN g[1] \ {LabelOf(device'.addr)} : g[2][l] = g[1][l]
             ELSE UNCHANGED <<gauge_rssi, gauge_battery, gauge_humidity, gauge_temperature>>]_vars
    /\ [](/\ DOMAIN gauge_rssi = DOMAIN gauge_battery
          /\ DOMAIN gauge_rssi = DOMAIN gauge_humidity
          /\ DOMAIN gauge_rssi = DOMAIN gauge_temperature)

\* with both devices published, a thermometer whose payload has no frame
\* marker was discovered, flagged neither new device nor new data
C10_Witness ==
    /\ MalformedDiscovered
    /\ flags = <<FALSE, FALSE>>
    /\ DOMAIN gauge_temperature = {LabelOf(a) : a \in Addresses}
    /\ gauge_temperature[LabelOf(device.addr)] = 13

=============================================================================
